---- MODULE Spec2Model ----
(***************************************************************************)
(* Model of create_image_with_text (src/app.py): the font-size search loop *)
(* over the coarse 40-character wrap, the refined re-wrap, and the         *)
(* placement of the lines on the canvas.                                   *)
(*                                                                         *)
(* Strings are sequences of one-character strings.  Pixel coordinates that *)
(* the code computes with "/ 2" are kept doubled (x2, y2) so that they     *)
(* stay integers.                                                          *)
(***************************************************************************)
EXTENDS Integers, Sequences, FiniteSets, TLC

VARIABLES text, image_size, margin, fontOK, pc, font_size, font, iter,
          fitted, lines, max_chars_per_line, drawn, err, exits

vars == <<text, image_size, margin, fontOK, pc, font_size, font, iter,
          fitted, lines, max_chars_per_line, drawn, err, exits>>

(***************************************************************************)
(* Program constants                                                       *)
(***************************************************************************)
StartFontSize == 100
MinFontSize == 10
CoarseWidth == 40

(***************************************************************************)
(* Bounds of the model                                                     *)
(***************************************************************************)
MaxWords == 2

(***************************************************************************)
(* Small helpers                                                           *)
(***************************************************************************)
Run(c, n) == <<>> \o [k \in 1..n |-> c]

RECURSIVE SumRange(_, _, _)
\* s[lo] + ... + s[hi], by halves to keep the evaluation shallow
SumRange(s, lo, hi) ==
    IF lo > hi THEN 0
    ELSE IF lo = hi THEN s[lo]
    ELSE LET mid == (lo + hi) \div 2
         IN SumRange(s, lo, mid) + SumRange(s, mid + 1, hi)

\* Python's sum() over a sequence of integers
SumSeq(s) == SumRange(s, 1, Len(s))

\* Python's max() over a non-empty sequence of integers
MaxSeq(s) ==
    LET vals == { s[k] : k \in 1..Len(s) }
    IN CHOOSE m \in vals : \A v \in vals : m >= v

RECURSIVE Join(_)
Join(ss) == IF ss = <<>> THEN <<>> ELSE Head(ss) \o Join(Tail(ss))

(***************************************************************************)
(* textwrap.wrap(text, width) with its default options                     *)
(***************************************************************************)
Whitespace == {" ", "\n"}

\* replace_whitespace: every whitespace character becomes a space
Munge(t) == [k \in 1..Len(t) |-> IF t[k] \in Whitespace THEN " " ELSE t[k]]

\* chunk.strip() == ''
Blank(chunk) == \A k \in 1..Len(chunk) : chunk[k] = " "

\* the last index of the run of spaces, or of non-spaces, that starts at i
RunEnd(t, i) ==
    LET ends == { j \in i..Len(t) :
                    j = Len(t) \/ ((t[j + 1] = " ") # (t[i] = " ")) }
    IN CHOOSE j \in ends : \A k \in ends : j <= k

RECURSIVE SplitChunks(_, _, _)
\* maximal runs of spaces and of non-spaces from index i on, in order
SplitChunks(t, i, acc) ==
    IF i > Len(t) THEN acc
    ELSE LET j == RunEnd(t, i)
         IN SplitChunks(t, j + 1, Append(acc, SubSeq(t, i, j)))

RECURSIVE Fill(_, _, _, _)
\* the inner "while chunks" loop: take chunks while they fit the width
Fill(chunks, cur_line, cur_len, width) ==
    IF chunks # <<>> /\ cur_len + Len(Head(chunks)) <= width
    THEN Fill(Tail(chunks), Append(cur_line, Head(chunks)),
              cur_len + Len(Head(chunks)), width)
    ELSE [cur |-> cur_line, len |-> cur_len, rest |-> chunks]

\* a long word kept whole, as with break_long_words=False
HandleLongWordKeepsWord(f, width) ==
    IF f.rest # <<>> /\ Len(Head(f.rest)) > width /\ f.cur = <<>>
    THEN [cur |-> <<Head(f.rest)>>, rest |-> Tail(f.rest)]
    ELSE [cur |-> f.cur, rest |-> f.rest]

\* _handle_long_word with break_long_words: cut the chunk at the space left
HandleLongWord(f, width) ==
    IF f.rest # <<>> /\ Len(Head(f.rest)) > width
    THEN LET space_left == IF width < 1 THEN 1 ELSE width - f.len
             chunk == Head(f.rest)
         IN [cur |-> Append(f.cur, SubSeq(chunk, 1, space_left)),
             rest |-> <<SubSeq(chunk, space_left + 1, Len(chunk))>> \o Tail(f.rest)]
    ELSE [cur |-> f.cur, rest |-> f.rest]

\* drop_whitespace at the end of the current line
DropTrailing(cur_line) ==
    IF cur_line # <<>> /\ Blank(cur_line[Len(cur_line)])
    THEN SubSeq(cur_line, 1, Len(cur_line) - 1)
    ELSE cur_line

RECURSIVE WrapChunks(_, _, _)
\* TextWrapper._wrap_chunks, for width > 0
WrapChunks(chunks, width, out) ==
    IF chunks = <<>> THEN out
    ELSE LET c1 == IF Blank(Head(chunks)) /\ out # <<>> THEN Tail(chunks) ELSE chunks
             g  == HandleLongWord(Fill(c1, <<>>, 0, width), width)
             cl == DropTrailing(g.cur)
         IN WrapChunks(g.rest, width, IF cl # <<>> THEN Append(out, Join(cl)) ELSE out)

\* textwrap.wrap raises ValueError for width <= 0
WrapRaises(width) == width <= 0

Wrap(t, width) == WrapChunks(SplitChunks(Munge(t), 1, <<>>), width, <<>>)

(***************************************************************************)
(* Fonts and draw.textbbox                                                 *)
(***************************************************************************)
\* ImageFont.truetype("arial.ttf", size): a proportional font whose glyphs
\* scale with the size ("W" is one em wide, the other glyphs a quarter em)
TrueType(size) == [kind |-> "truetype", size |-> size]

\* ImageFont.load_default(): fixed metrics, no adjustable size
DefaultCharWidth == 6
DefaultCharHeight == 11
DefaultFont == [kind |-> "default", size |-> 0]

\* ImageFont.truetype in try/except: the fallback absorbs the failure
LoadFont(size) == IF fontOK THEN TrueType(size) ELSE DefaultFont

CharWidth(c, f) ==
    IF f.kind = "default" THEN DefaultCharWidth
    ELSE IF c = "W" THEN f.size ELSE f.size \div 4

CharHeight(c, f) ==
    IF f.kind = "default" THEN DefaultCharHeight
    ELSE IF c = "W" THEN f.size
    ELSE IF c = " " THEN 0 ELSE (3 * f.size) \div 4

\* bbox[2]-bbox[0] of draw.textbbox((0,0), line, font=font)
TextWidth(line, f) == SumSeq([k \in 1..Len(line) |-> CharWidth(line[k], f)])

\* bbox[3]-bbox[1] of draw.textbbox((0,0), line, font=font)
TextHeight(line, f) ==
    IF line = <<>> THEN 0
    ELSE MaxSeq([k \in 1..Len(line) |-> CharHeight(line[k], f)])

LineWidths(ls, f) == [k \in 1..Len(ls) |-> TextWidth(ls[k], f)]
LineHeights(ls, f) == [k \in 1..Len(ls) |-> TextHeight(ls[k], f)]
LineLengths(ls) == [k \in 1..Len(ls) |-> Len(ls[k])]

(***************************************************************************)
(* create_image_with_text                                                  *)
(***************************************************************************)
max_width == image_size[1] - 2 * margin
max_height == image_size[2] - 2 * margin

\* a while test that lets the floor itself in
LoopConditionInclusive(fs) == fs >= MinFontSize

\* the while test of the search loop
LoopCondition(fs) == fs > MinFontSize

\* a loop that forgets to shrink the font
NextFontSizeStuck(fs) == fs

\* font_size -= 1
NextFontSize(fs) == fs - 1

\* a fit test with the width comparison turned around
FitsWidthReversed(ls, f) ==
    /\ MaxSeq(LineWidths(ls, f)) >= max_width
    /\ SumSeq(LineHeights(ls, f)) <= max_height

\* the fit test of the search loop, on non-empty ls
Fits(ls, f) ==
    /\ MaxSeq(LineWidths(ls, f)) <= max_width
    /\ SumSeq(LineHeights(ls, f)) <= max_height

\* what Python reports for the three ways the function can fail
EmptyMaxError == "ValueError: max() arg is an empty sequence"
ZeroDivision == "ZeroDivisionError: float division by zero"
InvalidWidth == "ValueError: invalid width (must be > 0)"

\* fraction bits of the binary64 floats Python divides with
DoubleFractionBits == 52

RECURSIVE PowerOfTwoMod(_, _)
\* 2^k modulo m, by halving k
PowerOfTwoMod(k, m) ==
    IF k = 0 THEN 1 % m
    ELSE LET h == PowerOfTwoMod(k \div 2, m)
         IN (h * h * (IF k % 2 = 1 THEN 2 ELSE 1)) % m

\* 2^e <= num / den, for positive num and den
AtLeastPowerOfTwo(num, den, e) ==
    IF e >= 0 THEN 2^e * den <= num ELSE den <= num * 2^(0 - e)

\* the binary exponent of num / den: the e with 2^e <= num / den < 2^(e+1)
BinaryExponent(num, den) ==
    CHOOSE e \in (0 - 8)..16 :
        AtLeastPowerOfTwo(num, den, e) /\ ~AtLeastPowerOfTwo(num, den, e + 1)

\* avg_char_width = mw / ml is rounded to the nearest double, ties to even:
\* TRUE when the double is above the quotient. r / ml is what the quotient
\* leaves beyond its first 53 significant bits.
AvgRoundedUp(mw, ml) ==
    LET shift == DoubleFractionBits - BinaryExponent(mw, ml)
        r == ((mw % ml) * PowerOfTwoMod(shift, ml)) % ml
        odd == ((mw % (2 * ml)) * PowerOfTwoMod(shift, 2 * ml)) % (2 * ml) >= ml
    IN 2 * r > ml \/ (2 * r = ml /\ odd)

\* max_width / avg_char_width, when max_width * ml / mw is the integer q and
\* avg_char_width was rounded up, lies just under q: TRUE when it is nearer
\* to the double below q than to q, so that the division yields that double.
QuotientFallsShort(mw, ml, q) ==
    LET E == BinaryExponent(mw, ml)
        shift == DoubleFractionBits - E
        r == ((mw % ml) * PowerOfTwoMod(shift, ml)) % ml
        below == BinaryExponent(q, 1) - (IF q = 2^BinaryExponent(q, 1) THEN 1 ELSE 0)
        d == E + 1 - below
    IN IF d >= 0 THEN q * (ml - r) * 2^d > mw
       ELSE q * (ml - r) > mw * 2^(0 - d)

\* int(max_width / (max(line_widths) / max(len(line)))), for mw > 0, in
\* binary64: the floor of the exact quotient, except that an exact integer
\* quotient is missed by one when both divisions round the wrong way
MaxCharsPerLine(mw, ml) ==
    LET q == (max_width * ml) \div mw
    IN IF /\ (max_width * ml) % mw = 0
          /\ q > 0
          /\ AvgRoundedUp(mw, ml)
          /\ QuotientFallsShort(mw, ml, q)
       THEN q - 1
       ELSE q

RECURSIVE PlaceFixedLeading(_, _, _, _)
\* a drawing loop that advances y by the font's line height
PlaceFixedLeading(ls, f, y2, acc) ==
    IF ls = <<>> THEN acc
    ELSE PlaceFixedLeading(Tail(ls), f, y2 + 2 * CharHeight("W", f),
               Append(acc, [line |-> Head(ls),
                            x2 |-> image_size[1] - TextWidth(Head(ls), f),
                            y2 |-> y2]))

RECURSIVE Place(_, _, _, _)
\* the drawing loop: one (line, x, y) per line, y advanced by the line's height
Place(ls, f, y2, acc) ==
    IF ls = <<>> THEN acc
    ELSE Place(Tail(ls), f, y2 + 2 * TextHeight(Head(ls), f),
               Append(acc, [line |-> Head(ls),
                            x2 |-> image_size[1] - TextWidth(Head(ls), f),
                            y2 |-> y2]))

\* y_offset = (image_size[1]-total_height)/2, doubled
StartY2(ls, f) == image_size[2] - SumSeq(LineHeights(ls, f))

(***************************************************************************)
(* Inputs                                                                  *)
(***************************************************************************)
Words == { <<"i">>, Run("i", 38), Run("W", 2), Run("W", 41) }
Seps == { <<" ">>, <<"\n">> }

RECURSIVE WordTexts(_)
\* texts of exactly n words, each two joined by a space or a newline
WordTexts(n) ==
    IF n = 1 THEN Words
    ELSE { t \o s \o w : t \in WordTexts(n - 1), s \in Seps, w \in Words }

\* the empty text and texts of whitespace only
BlankTexts == { <<>>, <<" ">>, <<"\n", " ">> }

Texts == BlankTexts \cup UNION { WordTexts(n) : n \in 1..MaxWords }

\* <<W, H, M>> with M < W/2 and M < H/2
Canvases == { <<512, 512, 20>>, <<120, 64, 5>>, <<460, 80, 5>> }

\* a canvas whose inner width is 2 pixels, less than most characters
TinyCanvases == { <<42, 42, 20>> }
ShortTexts == { t \in Texts : Len(t) <= 5 }

\* the calls that are made: <<text, canvas>>
Inputs == (Texts \X Canvases) \cup (ShortTexts \X TinyCanvases)

\* the inputs of the repeated calls: one text drawn on canvases of several widths
MonoTexts == { <<"i">>, Run("W", 2), Run("i", 38),
               Run("i", 38) \o <<" ">> \o Run("W", 2),
               Run("W", 2) \o <<"\n">> \o Run("W", 2) }
MonoWidths == { 64, 120, 200 }
MonoInputs == MonoTexts \X { <<w, h, 5>> : w \in MonoWidths, h \in { 64, 200 } }

\* text.split("\n") of create_video_from_text: the newline-separated parts
Paragraphs(t) ==
    LET nl == { k \in 1..Len(t) : t[k] = "\n" }
        starts == { 1 } \cup { k + 1 : k \in nl }
        Nth(n) == CHOOSE k \in starts : Cardinality({ j \in starts : j < k }) = n - 1
        End(b) == IF \E k \in nl : k >= b
                  THEN (CHOOSE k \in nl : k >= b /\ \A j \in nl : j >= b => k <= j) - 1
                  ELSE Len(t)
    IN [n \in 1..Cardinality(starts) |-> SubSeq(t, Nth(n), End(Nth(n)))]

(***************************************************************************)
(* State machine                                                           *)
(***************************************************************************)
\* the state at the while statement, lines 31-40 done
InitWith(I) ==
    /\ \E in \in I :
          /\ text = in[1]
          /\ image_size = <<in[2][1], in[2][2]>>
          /\ margin = in[2][3]
    /\ fontOK \in BOOLEAN
    /\ pc = "loop"
    /\ font_size = StartFontSize
    /\ font = LoadFont(StartFontSize)
    /\ iter = 0
    /\ fitted = FALSE
    /\ lines = <<>>
    /\ max_chars_per_line = 0
    /\ drawn = <<>>
    /\ err = "none"
    /\ exits = {}

Init == InitWith(Inputs)

\* lines 42-54: one iteration of the size search
LoopIteration ==
    /\ pc = "loop"
    /\ LoopCondition(font_size)
    /\ LET f == LoadFont(font_size)
           ls == Wrap(text, CoarseWidth)
       IN /\ font' = f
          /\ lines' = ls
          /\ iter' = iter + 1
          /\ IF ls = <<>>
             THEN \* max() of an empty sequence
                  /\ pc' = "raised"
                  /\ err' = EmptyMaxError
                  /\ UNCHANGED <<font_size, fitted>>
             ELSE IF Fits(ls, f)
             THEN \* break
                  /\ pc' = "layout"
                  /\ fitted' = TRUE
                  /\ UNCHANGED <<font_size, err>>
             ELSE \* font_size -= 1, then the while test
                  /\ font_size' = NextFontSize(font_size)
                  /\ pc' = IF LoopCondition(NextFontSize(font_size))
                           THEN "loop" ELSE "layout"
                  /\ UNCHANGED <<fitted, err>>
    /\ UNCHANGED <<text, image_size, margin, fontOK, max_chars_per_line,
                   drawn, exits>>

\* lines 56-75: refined wrap, measurement and placement
Layout ==
    /\ pc = "layout"
    /\ LET mw == MaxSeq(LineWidths(lines, font))
           ml == MaxSeq(LineLengths(lines))
       IN IF mw = 0
          THEN \* max_width / 0.0
               /\ pc' = "raised"
               /\ err' = ZeroDivision
               /\ UNCHANGED <<lines, max_chars_per_line, drawn>>
          ELSE LET mc == MaxCharsPerLine(mw, ml)
               IN /\ max_chars_per_line' = mc
                  /\ IF WrapRaises(mc)
                     THEN /\ pc' = "raised"
                          /\ err' = InvalidWidth
                          /\ UNCHANGED <<lines, drawn>>
                     ELSE LET ls == Wrap(text, mc)
                          IN /\ lines' = ls
                             /\ drawn' = Place(ls, font, StartY2(ls, font), <<>>)
                             /\ pc' = "done"
                             /\ UNCHANGED err
    /\ UNCHANGED <<text, image_size, margin, fontOK, font_size, font, iter,
                   fitted, exits>>

\* the "Create Image" button again (line 169), same text and font file, on
\* a canvas of another width; exits keeps the size each search ended with
Again ==
    /\ pc = "done" \/ (pc = "raised" /\ err # EmptyMaxError)
    /\ exits' = exits \cup { <<image_size[1], font_size>> }
    /\ \E w \in MonoWidths :
          /\ \A e \in exits' : e[1] # w
          /\ image_size' = <<w, image_size[2]>>
    /\ pc' = "loop"
    /\ font_size' = StartFontSize
    /\ font' = LoadFont(StartFontSize)
    /\ iter' = 0
    /\ fitted' = FALSE
    /\ lines' = <<>>
    /\ max_chars_per_line' = 0
    /\ drawn' = <<>>
    /\ err' = "none"
    /\ UNCHANGED <<text, margin, fontOK>>

Next == LoopIteration \/ Layout

Spec == Init /\ [][Next]_vars

InitMono == InitWith(MonoInputs)

NextMono == LoopIteration \/ Layout \/ Again

SpecMono == InitMono /\ [][NextMono]_vars

(***************************************************************************)
(* Properties                                                              *)
(***************************************************************************)
Returned == pc = "done"
Finished == pc \in { "done", "raised" }
NoWhitespace(t) == t # <<>> /\ \A k \in 1..Len(t) : t[k] \notin Whitespace
\* the candidate size of the last executed iteration
LastCandidate == StartFontSize + 1 - iter
\* the smallest font the search ever loads
SmallestFont == LoadFont(MinFontSize + 1)

\* C1: whenever the search loop was left through the fit test, the lines of
\* the returned (refined) wrap, measured with the final font, are no wider
\* than W-2M and their heights sum to at most H-2M.
C1_RefinedWrapFits == (Returned /\ fitted) => Fits(lines, font)

\* C2: for every non-empty text, whitespace-only text included, the call
\* does not raise and draws at least one line.
C2_NonEmptyTextIsDrawn ==
    (text # <<>> /\ Finished) => (Returned /\ Len(drawn) >= 1)

\* C3: for the empty string the call does not raise and returns exactly one
\* placement, of zero width.
C3_EmptyTextOnePlacement ==
    (text = <<>> /\ Finished) =>
        (Returned /\ Len(drawn) = 1 /\ TextWidth(drawn[1].line, font) = 0)

\* C4: for every non-empty, non-blank text and every valid canvas the code
\* after the loop (lines 56-71) raises no error.
C4_LayoutRaisesNothing == ~(pc = "raised" /\ err # EmptyMaxError)

Pieces(t, n) ==
    [k \in 1..((Len(t) + n - 1) \div n) |->
        SubSeq(t, (k - 1) * n + 1, IF k * n < Len(t) THEN k * n ELSE Len(t))]

C6_SearchMonotone ==
    pc # "loop" =>
        \A e \in exits :
            /\ e[1] <= image_size[1] => e[2] <= font_size
            /\ e[1] >= image_size[1] => e[2] >= font_size

C6_Witness ==
    /\ pc = "layout"
    /\ \E e \in exits : e[1] < image_size[1] /\ e[2] < font_size
    /\ \E e \in exits : e[1] > image_size[1] /\ e[2] > font_size

\* the lines of each newline-separated paragraph wrapped on its own, stacked
RECURSIVE WrapEach(_, _)
WrapEach(ps, width) ==
    IF ps = <<>> THEN <<>>
    ELSE Wrap(Head(ps), width) \o WrapEach(Tail(ps), width)

\* C7: each newline-separated part of the text is wrapped on its own and the
\* parts are stacked in order, so no returned line holds words of two parts.
C7_ParagraphsWrappedApart ==
    Returned => lines = WrapEach(Paragraphs(text), max_chars_per_line)

\* C8: the first line is drawn at y = (H - total height) / 2, not clamped;
\* each next line at the previous line's y plus the previous line's measured
\* height; the block ends at y0 + total height (coordinates doubled).
C8_VerticalStacking ==
    Returned =>
        /\ Len(drawn) = Len(lines)
        /\ \A k \in 1..Len(drawn) : drawn[k].line = lines[k]
        /\ drawn # <<>> =>
              /\ drawn[1].y2 = image_size[2] - SumSeq(LineHeights(lines, font))
              /\ drawn[Len(drawn)].y2 + 2 * TextHeight(lines[Len(lines)], font)
                    = image_size[2] + SumSeq(LineHeights(lines, font))
        /\ \A k \in 1..(Len(drawn) - 1) :
              drawn[k + 1].y2 = drawn[k].y2 + 2 * TextHeight(drawn[k].line, font)

C8_Witness ==
    /\ Returned
    /\ Len(drawn) >= 3
    /\ drawn[1].y2 < 0
    /\ \E k \in 1..(Len(drawn) - 1) :
          TextHeight(drawn[k].line, font) # TextHeight(drawn[k + 1].line, font)

\* C9: the search loop ends within 90 iterations, with either font:
\* font_size starts at 100 and is one less after each iteration that fails
\* the fit test, an iteration is only entered with font_size > 10, and the
\* number of iterations never exceeds 90.
C9_LoopBounded ==
    /\ iter <= StartFontSize - MinFontSize
    /\ font_size >= MinFontSize
    /\ pc = "loop" => (font_size > MinFontSize /\ font_size = StartFontSize - iter)
    /\ fitted => font_size = StartFontSize - (iter - 1)
    /\ (~fitted /\ err # EmptyMaxError) => font_size = StartFontSize - iter

C9_Witness ==
    /\ pc = "layout"
    /\ ~fontOK
    /\ ~fitted
    /\ iter = StartFontSize - MinFontSize

\* C10: after the loop the font in use always has a size in 11..100; it is
\* font_size exactly when the loop was left through the fit test, and it is
\* 11 (never the floor 10) when font_size ran down to the floor.
C10_FontSizeOfLastIteration ==
    (pc \in { "layout", "done" }) =>
        /\ font.size \in (MinFontSize + 1)..StartFontSize
        /\ (font.size = font_size) <=> fitted
        /\ ~fitted => (font.size = MinFontSize + 1 /\ font_size = MinFontSize)

\* C10 as amended: after the loop the font in use is the one obtained in the
\* last executed iteration, whose candidate size is in 11..100: arial.ttf at
\* that size when it loads, otherwise the fallback font, which has no size
\* of its own. The candidate of the last iteration is font_size exactly when
\* the loop was left through the fit test; when font_size ran down to the
\* floor 10 it is 11, and arial.ttf is never loaded at size 10.
C10_FontOfLastIteration ==
    /\ font.kind = "truetype" => font.size \in (MinFontSize + 1)..StartFontSize
    /\ (pc \in { "layout", "done" }) =>
          /\ LastCandidate \in (MinFontSize + 1)..StartFontSize
          /\ font = LoadFont(LastCandidate)
          /\ fontOK => font.size = LastCandidate
          /\ (LastCandidate = font_size) <=> fitted
          /\ ~fitted => (LastCandidate = MinFontSize + 1 /\ font_size = MinFontSize)

C10_Witness ==
    /\ Returned
    /\ fontOK
    /\ ~fitted
    /\ font.size = MinFontSize + 1
    /\ font_size = MinFontSize

====
